---------------------------- MODULE Spec2Model ----------------------------
(***************************************************************************)
(* A model of satopirka/fastmf: the parallel SGD training drivers          *)
(* (cymf GloVe.fit, fastmf GloVe.fit, BPR.fit / fit_bpr), the BPR Adam     *)
(* updater and the ranking evaluator (evaluate / recall / ndcg / ap).      *)
(*                                                                         *)
(* Arrays are functions on 0..n-1, so that indices read as in the source.  *)
(* A C double is represented in fixed point: the integer x stands for      *)
(* x / Scale.  Products and quotients truncate towards zero.               *)
(***************************************************************************)
EXTENDS Integers, Sequences, FiniteSets, TLC

(***************************************************************************)
(* Bounds of the model.                                                    *)
(***************************************************************************)
NumUsers == 2
NumItems == 2
MaxVal == 2
MaxIter == 2
MaxThreads == 3
MaxSeed == 1
HostCores == 2

(***************************************************************************)
(* Fixed-point arithmetic standing for C doubles and math.h.               *)
(***************************************************************************)
Scale == 1000

Abs(a) == IF a < 0 THEN -a ELSE a

TDiv(a, b) ==
    IF (a >= 0) = (b > 0) THEN Abs(a) \div Abs(b) ELSE -(Abs(a) \div Abs(b))

Mul(a, b) == TDiv(a * b, Scale)

square(x) == Mul(x, x)

RECURSIVE SqrtSearch(_, _, _)
SqrtSearch(n, lo, hi) ==
    IF lo >= hi THEN lo
    ELSE LET mid == (lo + hi + 1) \div 2
         IN  IF mid * mid <= n THEN SqrtSearch(n, mid, hi)
                               ELSE SqrtSearch(n, lo, mid - 1)

\* floor(sqrt(n)) for n >= 0
ISqrt(n) == SqrtSearch(n, 0, 46340)

\* exp(x): second-order expansion, adequate for the small |x| the factors give
exp(x) == Scale + x + TDiv(x * x, 2 * Scale)

sigmoid(x) == TDiv(Scale * Scale, Scale + exp(-x))

\* log(y) for y in (0, 1): second-order expansion about 1/2 = sigmoid(0)
log(y) == -693 + 2 * (y - 500) - TDiv(2 * (y - 500) * (y - 500), Scale)

(***************************************************************************)
(* Arrays.                                                                 *)
(***************************************************************************)
Len0(a) == Cardinality(DOMAIN a)

Min(a, b) == IF a < b THEN a ELSE b

Zeros(n) == [l \in 0..(n - 1) |-> 0]

Zeros2(n, m) == [r \in 0..(n - 1) |-> [c \in 0..(m - 1) |-> 0]]

RECURSIVE SumTo(_, _)
SumTo(a, n) == IF n = 0 THEN 0 ELSE SumTo(a, n - 1) + a[n - 1]

(***************************************************************************)
(* numpy's global RandomState: a seeded generator.  Every draw advances    *)
(* the state; the draw is the high bits of the new state.                  *)
(***************************************************************************)
Lcg(r) == (13 * r + 7) % 64

Bits(r) == r \div 4

RECURSIVE RngAt(_, _)
\* the generator's state after d draws
RngAt(r, d) == IF d = 0 THEN r ELSE Lcg(RngAt(r, d - 1))

\* np.random.uniform(low=-half, high=half, size=(n, m)) / nc
Uniform(r, n, m, half, nc) ==
    [a \in 0..(n - 1) |-> [b \in 0..(m - 1) |->
        TDiv(((Bits(RngAt(r, a * m + b + 1)) % 3) - 1) * half, nc)]]

Swap(p, i, j) == [p EXCEPT ![i] = p[j], ![j] = p[i]]

RECURSIVE FisherYates(_, _, _)
\* RandomState.shuffle: for i = n-1 .. 1, swap x[i] with x[random index <= i]
FisherYates(p, r, i) ==
    IF i < 1 THEN p
    ELSE LET r1 == Lcg(r)
         IN  FisherYates(Swap(p, i, Bits(r1) % (i + 1)), r1, i - 1)

\* sklearn.utils.shuffle(*arrays): one permutation applied to every array
Permutation(r, n) == FisherYates([l \in 0..(n - 1) |-> l], r, n - 1)

ShuffleDraws(n) == IF n > 1 THEN n - 1 ELSE 0

\* np.random.choice(a, size): size draws with replacement
Choice(a, r, size) ==
    [t \in 0..(size - 1) |-> a[Bits(RngAt(r, t + 1)) % Len0(a)]]

(***************************************************************************)
(* Sparse / dense matrices: M[u][i].                                       *)
(***************************************************************************)
Shape0(M) == Len0(M)

Shape1(M) == Len0(M[0])

ToArray(s) == [l \in 0..(Len(s) - 1) |-> s[l + 1]]

\* M.nonzero(): the coordinates of the nonzero entries, in row-major order
Nonzero(M) ==
    LET m    == Shape1(M)
        flat == [k \in 1..(Shape0(M) * m) |-> <<(k - 1) \div m, (k - 1) % m>>]
        Keep(c) == M[c[1]][c[2]] # 0
    IN  ToArray(SelectSeq(flat, Keep))

\* (row - 1).nonzero()[0]: the indices whose entry differs from 1
NonzeroMinusOne(row) ==
    LET idx == [k \in 1..Len0(row) |-> k - 1]
        Keep(i) == row[i] - 1 # 0
    IN  ToArray(SelectSeq(idx, Keep))

(***************************************************************************)
(* BprAdamUpdater.  An updater is a record of the two factor matrices and  *)
(* the four moment accumulators.  M_* is held in units of                  *)
(* (1 - beta1) / Scale and V_* in units of (1 - beta2) / Scale^2, so that  *)
(* M / (1 - beta1) and sqrt(V / (1 - beta2)) are exact at this resolution. *)
(***************************************************************************)
learning_rate == 10
weight_decay == 10
beta1 == 900
beta2 == 999
\* 1e-8 at this resolution: the smallest positive value
epsilon == 1

BprAdamUpdater(W, H) ==
    [W   |-> W,
     H   |-> H,
     M_W |-> Zeros2(Shape0(W), Shape1(W)),
     V_W |-> Zeros2(Shape0(W), Shape1(W)),
     M_H |-> Zeros2(Shape0(H), Shape1(H)),
     V_H |-> Zeros2(Shape0(H), Shape1(H))]

\* beta1 * M + (1 - beta1) * grad
Moment1(M, grad) == TDiv(beta1 * M, Scale) + grad

\* beta2 * V + (1 - beta2) * square(grad)
Moment2(V, grad) == TDiv(beta2 * V, Scale) + grad * grad

\* alpha * (M / (1 - beta1)) / (sqrt(V / (1 - beta2)) + epsilon)
AdamDelta(M, V) == TDiv(learning_rate * M, ISqrt(V) + epsilon)

RECURSIVE ScoreTo(_, _, _, _, _)
\* x_uij accumulated over k < n
ScoreTo(p, u, i, j, n) ==
    IF n = 0 THEN 0
    ELSE ScoreTo(p, u, i, j, n - 1)
         + Mul(p.W[u][n - 1], p.H[i][n - 1] - p.H[j][n - 1])

RECURSIVE NormTo(_, _, _, _, _)
\* l2_norm accumulated over k < n
NormTo(p, u, i, j, n) ==
    IF n = 0 THEN 0
    ELSE NormTo(p, u, i, j, n - 1)
         + square(p.W[u][n - 1]) + square(p.H[i][n - 1]) + square(p.H[j][n - 1])

\* loss = -log(sigmoid(x_uij)) + weight_decay * l2_norm
BprLossValue(p, u, i, j) ==
    LET K == Shape1(p.W)
    IN  -log(sigmoid(ScoreTo(p, u, i, j, K))) + Mul(weight_decay, NormTo(p, u, i, j, K))

\* one pass of the update loop's body, for coordinate k, statement by statement
AdamCoordinate(p, u, i, j, x, k) ==
    LET grad_wuk == -(Mul(x, p.H[i][k] - p.H[j][k]) - Mul(weight_decay, p.W[u][k]))
        grad_hik == -(Mul(x, p.W[u][k]) - Mul(weight_decay, p.H[i][k]))
        grad_hjk == -(Mul(x, -p.W[u][k]) - Mul(weight_decay, p.H[j][k]))
        p1 == [p  EXCEPT !.M_W[u][k] = Moment1(@, grad_wuk)]
        p2 == [p1 EXCEPT !.M_H[i][k] = Moment1(@, grad_hik)]
        p3 == [p2 EXCEPT !.M_H[j][k] = Moment1(@, grad_hjk)]
        p4 == [p3 EXCEPT !.V_W[u][k] = Moment2(@, grad_wuk)]
        p5 == [p4 EXCEPT !.V_H[i][k] = Moment2(@, grad_hik)]
        p6 == [p5 EXCEPT !.V_H[j][k] = Moment2(@, grad_hjk)]
        p7 == [p6 EXCEPT !.W[u][k] = @ - AdamDelta(p6.M_W[u][k], p6.V_W[u][k])]
        p8 == [p7 EXCEPT !.H[i][k] = @ - AdamDelta(p7.M_H[i][k], p7.V_H[i][k])]
    IN  [p8 EXCEPT !.H[j][k] = @ - AdamDelta(p8.M_H[j][k], p8.V_H[j][k])]

RECURSIVE AdamTo(_, _, _, _, _, _)
\* the update loop over k < n
AdamTo(p, u, i, j, x, n) ==
    IF n = 0 THEN p
    ELSE AdamCoordinate(AdamTo(p, u, i, j, x, n - 1), u, i, j, x, n - 1)

\* loss() without its early return on update = false
BprLossUpdaterNoReturn(p, u, i, j, update) ==
    LET K == Shape1(p.W)
        x == TDiv(Scale * Scale, Scale + exp(ScoreTo(p, u, i, j, K)))
    IN  AdamTo(p, u, i, j, x, K)

\* the updater after loss(u, i, j, update)
BprLossUpdater(p, u, i, j, update) ==
    IF ~update THEN p
    ELSE LET K == Shape1(p.W)
             x == TDiv(Scale * Scale, Scale + exp(ScoreTo(p, u, i, j, K)))
         IN  AdamTo(p, u, i, j, x, K)

(***************************************************************************)
(* GloVeModel and GloVeAdaGrad (model.pyx, optimizer.pyx).  A model is a   *)
(* record of the four parameter arrays and their squared-gradient          *)
(* accumulators; an accumulator is held in units of 1 / Scale^2.           *)
(***************************************************************************)
x_max == 10

\* log(count), count = 1..10
LogCount(count) ==
    <<0, 693, 1099, 1386, 1609, 1792, 1946, 2079, 2197, 2303>>[count]

\* f(count) = (count / x_max)^alpha for count < x_max, else 1.0; alpha = 0.75
Weighting(count) ==
    IF count >= x_max THEN Scale
    ELSE <<178, 299, 405, 503, 595, 682, 765, 846, 924>>[count]

GloVeModel(central_W, context_W, central_bias, context_bias) ==
    [central_W    |-> central_W,
     context_W    |-> context_W,
     central_bias |-> central_bias,
     context_bias |-> context_bias,
     acc_central_W    |-> [r \in DOMAIN central_W |-> [c \in DOMAIN central_W[r] |-> Scale * Scale]],
     acc_context_W    |-> [r \in DOMAIN context_W |-> [c \in DOMAIN context_W[r] |-> Scale * Scale]],
     acc_central_bias |-> [r \in DOMAIN central_bias |-> Scale * Scale],
     acc_context_bias |-> [r \in DOMAIN context_bias |-> Scale * Scale]]

RECURSIVE GloVeDotTo(_, _, _, _)
GloVeDotTo(g, i, j, n) ==
    IF n = 0 THEN 0
    ELSE GloVeDotTo(g, i, j, n - 1) + Mul(g.central_W[i][n - 1], g.context_W[j][n - 1])

\* p - log(count), p = dot(central[i], context[j]) + bias_central[i] + bias_context[j]
GloVeDiff(g, i, j, count) ==
    GloVeDotTo(g, i, j, Shape1(g.central_W)) + g.central_bias[i] + g.context_bias[j]
    - LogCount(count)

\* forward: f(count) * (p - log(count))^2
GloVeForward(g, i, j, count) ==
    Mul(Weighting(count), square(GloVeDiff(g, i, j, count)))

\* AdaGrad: accum += g^2; param -= lr * g / sqrt(accum)
AdaGradDelta(accum, grad) == TDiv(learning_rate * grad, ISqrt(accum + grad * grad))

GloVeCoordinate(g, i, j, e, k) ==
    LET grad_c == Mul(e, g.context_W[j][k])
        grad_x == Mul(e, g.central_W[i][k])
    IN  [g EXCEPT !.acc_central_W[i][k] = @ + grad_c * grad_c,
                  !.acc_context_W[j][k] = @ + grad_x * grad_x,
                  !.central_W[i][k] = @ - AdaGradDelta(g.acc_central_W[i][k], grad_c),
                  !.context_W[j][k] = @ - AdaGradDelta(g.acc_context_W[j][k], grad_x)]

RECURSIVE GloVeBackwardTo(_, _, _, _, _)
GloVeBackwardTo(g, i, j, e, n) ==
    IF n = 0 THEN g
    ELSE GloVeCoordinate(GloVeBackwardTo(g, i, j, e, n - 1), i, j, e, n - 1)

\* backward: e = f(count) * (p - log(count)); every gradient through AdaGrad
GloVeBackward(g, i, j, count) ==
    LET e  == Mul(Weighting(count), GloVeDiff(g, i, j, count))
        g1 == GloVeBackwardTo(g, i, j, e, Shape1(g.central_W))
    IN  [g1 EXCEPT !.acc_central_bias[i] = @ + e * e,
                   !.acc_context_bias[j] = @ + e * e,
                   !.central_bias[i] = @ - AdaGradDelta(g1.acc_central_bias[i], e),
                   !.context_bias[j] = @ - AdaGradDelta(g1.acc_context_bias[j], e)]

(***************************************************************************)
(* The calls of fit the model explores.                                    *)
(***************************************************************************)
num_components == 1

Users == 0..(NumUsers - 1)
Items == 0..(NumItems - 1)

ZeroMatrix    == [u \in Users |-> [i \in Items |-> 0]]
Diag(v)       == [u \in Users |-> [i \in Items |-> IF i = u % NumItems THEN v ELSE 0]]
FullRow(v)    == [u \in Users |-> [i \in Items |-> IF u = 0 THEN v ELSE 0]]
FirstCol(v)   == [u \in Users |-> [i \in Items |-> IF i = 0 THEN v ELSE 0]]
AllButLast(v) == [u \in Users |-> [i \in Items |-> IF i < NumItems - 1 THEN v ELSE 0]]
Single(v)     == [u \in Users |-> [i \in Items |-> IF u = 0 /\ i = 0 THEN v ELSE 0]]

\* nonnegative interaction / co-occurrence matrices
Matrices ==
    {ZeroMatrix} \cup UNION {{Diag(v), FullRow(v), FirstCol(v), AllButLast(v), Single(v)} : v \in 1..MaxVal}

ValidMatrices == {ZeroMatrix, Diag(1), FullRow(1), FirstCol(1)}

\* Python's None
None == <<>>

EmptyMap == [key \in {} |-> 0]

Entries == {"cymf", "fastmf", "bpr"}

\* what the caller passes as X: a scipy.sparse matrix, a numpy array, a list, None
Kinds == {"sparse", "dense", "list", "None"}

Call(entry, kind, X, X_valid, num_iterations, threads, seed) ==
    [entry |-> entry, kind |-> kind, X |-> X, X_valid |-> X_valid, X_test |-> None,
     num_iterations |-> num_iterations, num_threads |-> threads, seed |-> seed]

\* the held-out test matrices: one user with no held-out interaction
TestMatrices == {[u \in {0} |-> [i \in Items |-> 0]]}

\* the epochs of the calls with a test matrix: one, and two when allowed
TestEpochs == {1, Min(MaxIter, 2)}

\* the matrices the calls with several workers are made on
SmallMatrices == {ZeroMatrix, Diag(1), FirstCol(1), Single(1)}

\* one worker on every matrix, every worker count on the small matrices,
\* with and without a validation matrix; then the arguments that are no
\* sparse matrix
Calls ==
    {Call(e, "sparse", X, None, n, 1, s) :
        e \in Entries, X \in Matrices, n \in 0..MaxIter, s \in 0..MaxSeed}
    \cup
    {Call(e, "sparse", X, None, n, t, 0) :
        e \in Entries, X \in SmallMatrices, n \in 0..MaxIter, t \in (-1)..MaxThreads}
    \cup
    {Call("bpr", "sparse", X, V, n, 1, s) :
        X \in Matrices, V \in ValidMatrices, n \in 1..MaxIter, s \in 0..MaxSeed}
    \cup
    {Call("bpr", "sparse", X, V, n, t, 0) :
        X \in SmallMatrices, V \in ValidMatrices, n \in 1..MaxIter, t \in 1..HostCores}
    \cup
    {[Call("bpr", "sparse", Diag(1), V, n, 1, 0) EXCEPT !.X_test = T] :
        V \in {None, Diag(1)}, n \in TestEpochs, T \in TestMatrices}
    \cup
    {Call(e, k, Diag(1), None, 1, 1, 0) : e \in Entries, k \in Kinds \ {"sparse"}}

(***************************************************************************)
(* State.                                                                  *)
(***************************************************************************)
VARIABLES
    call,          \* the arguments of fit
    run,           \* 1 for the first call of fit, 2 for the repeated one
    first,         \* what the first call produced
    pc,            \* the statement fit is at
    err,           \* the exception raised, or "None"
    attrs,         \* the attributes of self bound to an array
    rng,           \* the state of numpy's global generator
    params,        \* the parameter arrays and the optimizer's accumulators
    num_threads,   \* the local num_threads
    users,         \* users / central_words
    positives,     \* positives / context_words
    counts,        \* counts (GloVe)
    negatives,     \* negatives[l][iteration]
    valid,         \* users_valid, positives_valid, negatives_valid, or "None"
    l,             \* the index of the sequential loops
    loss,          \* the loss buffer
    oob,           \* what was stored past the end of the loss buffer
    metrics,       \* the metrics map / accum_loss
    history,       \* the metric records pushed / the losses shown
    iteration,     \* the epoch
    cursor,        \* per worker of the parallel loop: its next index
    X_test,        \* evaluate's dense held-out matrix X
    argsorted_scores,  \* scores.argsort(axis=1), the array the top-k view is cut from
    ev,            \* the locals of recall / ndcg / ap: i, j, ret, tmp, counter
    per_row,       \* the arrays recall, ndcg and ap returned
    locals         \* per worker inside loss(): its statement and its C locals

evalVars == <<X_test, argsorted_scores, ev, per_row>>

fitVars == <<call, run, first, err, attrs, rng, num_threads, users, positives,
             counts, negatives, valid, l, loss, oob, history, iteration, cursor,
             locals>>

vars == <<call, run, first, pc, err, attrs, rng, params, num_threads, users,
          positives, counts, negatives, valid, l, loss, oob, metrics, history,
          iteration, cursor, X_test, argsorted_scores, ev, per_row, locals>>

\* the state at the entry of fit(call), with the generator seeded by the caller
Entered(c) ==
    /\ call = c
    /\ pc = IF c.entry = "cymf" THEN "validate" ELSE "allocate"
    /\ err = "None"
    /\ attrs = {}
    /\ rng = c.seed
    /\ params = None
    /\ num_threads = c.num_threads
    /\ users = <<>>
    /\ positives = <<>>
    /\ counts = <<>>
    /\ negatives = <<>>
    /\ valid = None
    /\ l = 0
    /\ loss = <<>>
    /\ oob = <<>>
    /\ metrics = EmptyMap
    /\ history = <<>>
    /\ iteration = 0
    /\ cursor = <<>>
    /\ X_test = None
    /\ argsorted_scores = None
    /\ ev = None
    /\ per_row = None
    /\ locals = None

Init ==
    /\ \E c \in Calls : Entered(c)
    /\ run = 1
    /\ first = None

IsGloVe == call.entry \in {"cymf", "fastmf"}

Raise(e) ==
    /\ err' = e
    /\ pc' = "raised"

(***************************************************************************)
(* fit, up to the epochs.                                                  *)
(***************************************************************************)
\* cymf GloVe.fit: the checks of X
Validate ==
    /\ pc = "validate"
    /\ IF call.kind = "None" THEN Raise("ValueError")
       ELSE IF call.kind # "sparse" THEN Raise("TypeError")
       ELSE pc' = "allocate" /\ err' = err
    /\ UNCHANGED <<evalVars, locals, call, run, first, attrs, rng, params, num_threads, users,
                   positives, counts, negatives, valid, l, loss, oob, metrics,
                   history, iteration, cursor>>

\* the arrays fit draws first, and the attributes of self it binds
Allocated(c, r) ==
    LET n0 == Shape0(c.X)
        n1 == Shape1(c.X)
        K  == num_components
    IN  IF c.entry = "bpr"
        THEN [W |-> Uniform(r, n0, K, 100, K),
              H |-> Uniform(RngAt(r, n0 * K), n1, K, 100, K)]
        ELSE [W     |-> Uniform(r, n0, K, 500, K),
              bias  |-> Uniform(RngAt(r, n0 * K), 1, n0, 500, K)[0],
              _W    |-> Uniform(RngAt(r, n0 * K + n0), n1, K, 500, K),
              _bias |-> Uniform(RngAt(r, n0 * K + n0 + n1 * K), 1, n0, 500, K)[0]]

AllocateDraws(c) ==
    LET n0 == Shape0(c.X)
        n1 == Shape1(c.X)
        K  == num_components
    IN  IF c.entry = "bpr" THEN n0 * K + n1 * K ELSE n0 * K + n0 + n1 * K + n0

\* the attributes bound once the first arrays are drawn
BoundAttrs(entry) == IF entry = "bpr" THEN {"W", "H"} ELSE {"W", "bias"}

Allocate ==
    /\ pc = "allocate"
    /\ IF call.kind \in {"None", "list"}
       THEN /\ Raise("AttributeError")
            /\ UNCHANGED <<attrs, rng, params>>
       ELSE /\ params' = Allocated(call, rng)
            /\ rng' = RngAt(rng, AllocateDraws(call))
            /\ attrs' = BoundAttrs(call.entry)
            /\ pc' = "threads"
            /\ err' = err
    /\ UNCHANGED <<evalVars, locals, call, run, first, num_threads, users, positives, counts,
                   negatives, valid, l, loss, oob, metrics, history, iteration,
                   cursor>>

\* multiprocessing.cpu_count() / cpucount()
cpu_count == HostCores

\* the value fit rebinds num_threads to
Resolved(entry, n) ==
    IF entry = "cymf" THEN (IF n > 0 THEN n ELSE cpu_count)
    ELSE Min(n, cpu_count)

ResolveThreads ==
    /\ pc = "threads"
    /\ num_threads' = Resolved(call.entry, num_threads)
    /\ pc' = "extract"
    /\ UNCHANGED <<evalVars, locals, call, run, first, err, attrs, rng, params, users, positives,
                   counts, negatives, valid, l, loss, oob, metrics, history,
                   iteration, cursor>>

HasValid == call.X_valid # None

\* X.nonzero() (and X.data), shuffled; X_valid.nonzero(), as it comes
Extract ==
    /\ pc = "extract"
    /\ IF call.kind = "dense"
       THEN /\ Raise(IF call.entry = "bpr" THEN "AttributeError" ELSE "ValueError")
            /\ UNCHANGED <<rng, users, positives, counts, valid>>
       ELSE LET nz   == Nonzero(call.X)
                N    == Len0(nz)
                perm == Permutation(rng, N)
            IN  /\ users' = [k \in 0..(N - 1) |-> nz[perm[k]][1]]
                /\ positives' = [k \in 0..(N - 1) |-> nz[perm[k]][2]]
                /\ counts' = IF IsGloVe
                             THEN [k \in 0..(N - 1) |->
                                      call.X[nz[perm[k]][1]][nz[perm[k]][2]]]
                             ELSE counts
                /\ rng' = RngAt(rng, ShuffleDraws(N))
                /\ valid' = IF HasValid
                            THEN LET vz == Nonzero(call.X_valid)
                                 IN  [users     |-> [k \in DOMAIN vz |-> vz[k][1]],
                                      positives |-> [k \in DOMAIN vz |-> vz[k][2]],
                                      negatives |-> None]
                            ELSE None
                /\ pc' = "enter"
                /\ err' = err
    /\ UNCHANGED <<evalVars, locals, call, run, first, attrs, params, num_threads, negatives, l,
                   loss, oob, metrics, history, iteration, cursor>>

\* fit_bpr / fit_glove / _fit_glove: the locals, the optimizer and the model
Enter ==
    /\ pc = "enter"
    /\ loss' = Zeros(Len0(users))
    /\ history' = <<>>
    /\ IF IsGloVe
       THEN /\ params' = GloVeModel(params.W, params._W, params.bias, params._bias)
            /\ negatives' = negatives
            /\ pc' = "epoch"
       ELSE /\ params' = BprAdamUpdater(params.W, params.H)
            /\ negatives' = Zeros2(Len0(users), call.num_iterations)
            /\ pc' = "negatives"
    /\ l' = 0
    /\ UNCHANGED <<evalVars, locals, call, run, first, err, attrs, rng, num_threads, users,
                   positives, counts, valid, oob, metrics, iteration, cursor>>

\* one pass of the loop that draws the negatives of training sample l
SampleNegatives ==
    /\ pc = "negatives"
    /\ IF l < Len0(users)
       THEN LET cand == NonzeroMinusOne(call.X[users[l]])
            IN  IF Len0(cand) = 0 /\ call.num_iterations > 0
                THEN /\ Raise("ValueError")
                     /\ UNCHANGED <<negatives, rng, l>>
                ELSE /\ negatives' = [negatives EXCEPT ![l] = Choice(cand, rng, call.num_iterations)]
                     /\ rng' = RngAt(rng, call.num_iterations)
                     /\ l' = l + 1
                     /\ UNCHANGED <<pc, err>>
       ELSE /\ pc' = IF HasValid THEN "negatives_valid" ELSE "epoch"
            /\ l' = 0
            /\ UNCHANGED <<negatives, rng, err>>
    /\ valid' = IF l >= Len0(users) /\ HasValid
                THEN [valid EXCEPT !.negatives = Zeros2(Len0(valid.users), call.num_iterations)]
                ELSE valid
    /\ UNCHANGED <<evalVars, locals, call, run, first, attrs, params, num_threads, users,
                   positives, counts, loss, oob, metrics, history, iteration,
                   cursor>>

\* the same loop over the validation samples
SampleNegativesValid ==
    /\ pc = "negatives_valid"
    /\ IF l < Len0(valid.users)
       THEN LET cand == NonzeroMinusOne(call.X_valid[valid.users[l]])
            IN  IF Len0(cand) = 0 /\ call.num_iterations > 0
                THEN /\ Raise("ValueError")
                     /\ UNCHANGED <<valid, rng, l>>
                ELSE /\ valid' = [valid EXCEPT !.negatives[l] = Choice(cand, rng, call.num_iterations)]
                     /\ rng' = RngAt(rng, call.num_iterations)
                     /\ l' = l + 1
                     /\ UNCHANGED <<pc, err>>
       ELSE /\ pc' = "epoch"
            /\ l' = 0
            /\ UNCHANGED <<valid, rng, err>>
    /\ UNCHANGED <<evalVars, locals, call, run, first, attrs, params, num_threads, users,
                   positives, counts, negatives, loss, oob, metrics, history,
                   iteration, cursor>>

(***************************************************************************)
(* The epochs.  prange(n, num_threads=T) runs a team of workers; with      *)
(* OpenMP's static schedule worker w owns one contiguous chunk of 0..n-1   *)
(* and goes through it in order, the workers interleaving freely.  A       *)
(* non-positive num_threads leaves the team's size to the runtime.         *)
(***************************************************************************)
Team(n) == IF n > 0 THEN {n} ELSE 1..cpu_count

ChunkStart(w, n, T) ==
    LET q == n \div T
        r == n % T
    IN  IF w < r THEN w * (q + 1) ELSE w * q + r

ChunkEnd(w, n, T) == ChunkStart(w + 1, n, T)

\* a schedule that hands any index to any worker
SchedulableAnywhere(w, n) == 0..(n - 1)

\* the indices worker w may take next
Schedulable(w, n) ==
    IF cursor[w] < ChunkEnd(w, n, Len0(cursor)) THEN {cursor[w]} ELSE {}

\* a pass taken as over while workers are still in their chunks
PassDoneEarly(n) == TRUE

\* the end of the parallel region: every worker is through its chunk
PassDone(n) == \A w \in DOMAIN cursor : cursor[w] = ChunkEnd(w, n, Len0(cursor))

\* an insertion that keeps the value a key already has
PutKeepsOld(map, key, value) == map @@ (key :> value)

\* map[key] = value
Put(map, key, value) == (key :> value) @@ map

EpochBegin ==
    /\ pc = "epoch"
    /\ IF iteration < call.num_iterations
       THEN /\ metrics' = Put(metrics, IF IsGloVe THEN "accum_loss" ELSE "loss", 0)
            /\ \E T \in Team(num_threads) :
                   cursor' = [w \in 0..(T - 1) |-> ChunkStart(w, Len0(users), T)]
            /\ pc' = "train"
       ELSE /\ pc' = "return"
            /\ UNCHANGED <<metrics, cursor>>
    /\ UNCHANGED <<evalVars, locals, call, run, first, err, attrs, rng, params, num_threads,
                   users, positives, counts, negatives, valid, l, loss, oob,
                   history, iteration>>

\* the body of the training prange for index s
TrainSample ==
    /\ pc = "train"
    /\ \E w \in DOMAIN cursor : \E s \in Schedulable(w, Len0(users)) :
          /\ IF IsGloVe
             THEN /\ loss' = [loss EXCEPT ![s] =
                                 GloVeForward(params, users[s], positives[s], counts[s])]
                  /\ params' = GloVeBackward(params, users[s], positives[s], counts[s])
             ELSE /\ loss' = [loss EXCEPT ![s] =
                                 BprLossValue(params, users[s], positives[s],
                                              negatives[s][iteration])]
                  /\ params' = BprLossUpdater(params, users[s], positives[s],
                                              negatives[s][iteration], TRUE)
          /\ cursor' = [cursor EXCEPT ![w] = s + 1]
    /\ UNCHANGED <<evalVars, locals, call, run, first, pc, err, attrs, rng, num_threads, users,
                   positives, counts, negatives, valid, l, oob, metrics,
                   history, iteration>>

\* after the barrier: the loss buffer summed, and for BPR divided by N
SumLoss ==
    /\ pc = "train"
    /\ PassDone(Len0(users))
    /\ LET N == Len0(users)
       IN  IF IsGloVe
           THEN /\ metrics' = Put(metrics, "accum_loss", SumTo(loss, N))
                /\ pc' = "report"
                /\ err' = err
           ELSE IF N = 0
           THEN /\ Raise("ZeroDivisionError")
                /\ metrics' = metrics
           ELSE /\ metrics' = Put(metrics, "loss", TDiv(SumTo(loss, N), N))
                /\ pc' = IF HasValid THEN "valid" ELSE "report"
                /\ err' = err
    /\ UNCHANGED <<evalVars, locals, call, run, first, attrs, rng, params, num_threads, users,
                   positives, counts, negatives, valid, l, loss, oob, history,
                   iteration, cursor>>

ValidBegin ==
    /\ pc = "valid"
    /\ metrics' = Put(metrics, "val_loss", 0)
    /\ \E T \in Team(num_threads) :
           cursor' = [w \in 0..(T - 1) |-> ChunkStart(w, Len0(valid.users), T)]
    /\ pc' = "valid_pass"
    /\ UNCHANGED <<evalVars, locals, call, run, first, err, attrs, rng, params, num_threads,
                   users, positives, counts, negatives, valid, l, loss, oob,
                   history, iteration>>

\* the body of the validation prange for index s; a store past the end of
\* the loss buffer lands in the memory after it, or stops the process
ValidSample ==
    /\ pc = "valid_pass"
    /\ \E w \in DOMAIN cursor : \E s \in Schedulable(w, Len0(valid.users)) :
          LET u == valid.users[s]
              i == valid.positives[s]
              j == valid.negatives[s][iteration]
              value == BprLossValue(params, u, i, j)
          IN  /\ params' = BprLossUpdater(params, u, i, j, FALSE)
              /\ cursor' = [cursor EXCEPT ![w] = s + 1]
              /\ IF s < Len0(loss)
                 THEN /\ loss' = [loss EXCEPT ![s] = value]
                      /\ UNCHANGED <<oob, pc, err>>
                 ELSE \/ /\ oob' = Put(oob, s, value)
                         /\ UNCHANGED <<loss, pc, err>>
                      \/ /\ Raise("SIGSEGV")
                         /\ UNCHANGED <<loss, oob>>
    /\ UNCHANGED <<evalVars, locals, call, run, first, attrs, rng, num_threads, users,
                   positives, counts, negatives, valid, l, metrics, history,
                   iteration>>

\* loss[s] as the validation sum reads it
LossAt(s) == IF s < Len0(loss) THEN loss[s] ELSE oob[s]

RECURSIVE SumLossTo(_)
SumLossTo(n) == IF n = 0 THEN 0 ELSE SumLossTo(n - 1) + LossAt(n - 1)

SumValid ==
    /\ pc = "valid_pass"
    /\ PassDone(Len0(valid.users))
    /\ LET NV == Len0(valid.users)
       IN  IF NV = 0
           THEN /\ Raise("ZeroDivisionError")
                /\ metrics' = metrics
           ELSE /\ metrics' = Put(metrics, "val_loss", TDiv(SumLossTo(NV), NV))
                /\ pc' = "report"
                /\ err' = err
    /\ UNCHANGED <<evalVars, locals, call, run, first, attrs, rng, params, num_threads, users,
                   positives, counts, negatives, valid, l, loss, oob, history,
                   iteration, cursor>>

(***************************************************************************)
(* evaluate and the ranking metrics recall, ndcg and ap.  X_test holds the *)
(* ratings as doubles (0.0 or 1.0, in units of 1/Scale).  The metrics run  *)
(* with boundscheck(False): an index past the view's columns is read from  *)
(* wherever the view's strides point.                                      *)
(***************************************************************************)
\* the k evaluate passes to recall, ndcg and ap, and the columns it keeps
TopK == 10

\* 1.0 / log2(j + 1) for j = 1..9
InvLog2 == <<1000, 631, 500, 431, 387, 356, 333, 315, 301>>

RECURSIVE DotTo(_, _, _)
DotTo(w, h, n) == IF n = 0 THEN 0 ELSE DotTo(w, h, n - 1) + Mul(w[n - 1], h[n - 1])

\* np.dot(np.array(W), np.array(H).T)
Dot(W, H) == [u \in DOMAIN W |-> [i \in DOMAIN H |-> DotTo(W[u], H[i], Len0(W[u]))]]

\* the orders argsort can return for one row: ascending by score; the
\* default sort is not stable, equal scores come out in any order
RECURSIVE AscendingOrders(_, _)
AscendingOrders(row, S) ==
    IF S = {} THEN {<<>>}
    ELSE LET lowest == {e \in S : \A o \in S : row[e] <= row[o]}
         IN  UNION {{<<e>> \o rest : rest \in AscendingOrders(row, S \ {e})} :
                    e \in lowest}

\* scores.argsort(axis=1)
Argsort(scores) ==
    LET orders(u) == {ToArray(o) : o \in AscendingOrders(scores[u], DOMAIN scores[u])}
    IN  {A \in [DOMAIN scores -> UNION {orders(u) : u \in DOMAIN scores}] :
            \A u \in DOMAIN scores : A[u] \in orders(u)}

\* the columns of the view [:, ::-1][:, :10]
ViewColumns(A) == Min(TopK, Shape1(A))

\* where element (i, j) of the view lies in argsort's buffer: the view
\* starts at the last element of row 0 and its column stride is negative
Offset(A, i, j) == i * Shape1(A) + (Shape1(A) - 1 - j)

\* what a read before the start of argsort's buffer makes of X[i, ...]
Garbage == {0, Scale}

\* X[i, argsorted_scores[i, j]]: inside the buffer the element the strides
\* reach, which for j past the view's columns belongs to an earlier row
Ratings(X, A, i, j) ==
    LET f == Offset(A, i, j)
    IN  IF f >= 0 THEN {X[i][A[f \div Shape1(A)][f % Shape1(A)]]} ELSE Garbage

\* np.array(X).sum(axis=1)[i]
RowSum(X, i) == SumTo(X[i], Len0(X[i]))

\* ret.mean()
Mean(ret) == TDiv(SumTo(ret, Len0(ret)), Len0(ret))

\* the locals recall, ndcg and ap start from
Locals(N) == [i |-> 0, j |-> 0, ret |-> Zeros(N), tmp |-> Zeros(N), counter |-> Zeros(N)]

\* evaluate, up to the call of recall
Evaluate ==
    /\ pc = "evaluate"
    /\ \E A \in Argsort(Dot(params.W, params.H)) : argsorted_scores' = A
    /\ ev' = Locals(Shape0(X_test))
    /\ pc' = "recall"
    /\ UNCHANGED <<fitVars, params, metrics, X_test, per_row>>

\* recall: one step of its loops, or its return into stores
Recall ==
    /\ pc = "recall"
    /\ IF ev.i = Shape0(X_test)
       THEN /\ per_row' = Put(per_row, "recall", ev.ret)
            /\ metrics' = Put(metrics, "Reacall@10", Mean(ev.ret))
            /\ ev' = Locals(Shape0(X_test))
            /\ pc' = "ndcg"
       ELSE /\ IF ev.j = 0 /\ RowSum(X_test, ev.i) = 0
               THEN ev' = [ev EXCEPT !.ret[ev.i] = 0, !.i = @ + 1]
               ELSE IF ev.j < TopK
               THEN \E rating \in Ratings(X_test, argsorted_scores, ev.i, ev.j) :
                        ev' = [ev EXCEPT !.ret[ev.i] = @ + rating, !.j = @ + 1]
               ELSE ev' = [ev EXCEPT !.ret[ev.i] = TDiv(@ * Scale, RowSum(X_test, ev.i)),
                                      !.i = @ + 1, !.j = 0]
            /\ UNCHANGED <<per_row, metrics, pc>>
    /\ UNCHANGED <<fitVars, params, X_test, argsorted_scores>>

\* the ideal DCG ndcg builds in tmp[i]: 1.0 and the weights of ranks 1..n-1
RECURSIVE IdealTo(_)
IdealTo(n) == IF n <= 1 THEN Scale ELSE IdealTo(n - 1) + InvLog2[n - 1]

\* ndcg: one step of its loops, or its return into stores
Ndcg ==
    /\ pc = "ndcg"
    /\ IF ev.i = Shape0(X_test)
       THEN /\ per_row' = Put(per_row, "ndcg", ev.ret)
            /\ metrics' = Put(metrics, "nDCG@10", Mean(ev.ret))
            /\ ev' = Locals(Shape0(X_test))
            /\ pc' = "ap"
       ELSE /\ IF ev.j = 0 /\ RowSum(X_test, ev.i) = 0
               THEN ev' = [ev EXCEPT !.ret[ev.i] = 0, !.i = @ + 1]
               ELSE IF ev.j = 0
               THEN \E rating \in Ratings(X_test, argsorted_scores, ev.i, 0) :
                        ev' = [ev EXCEPT
                                 !.tmp[ev.i] = IdealTo(Min(TDiv(RowSum(X_test, ev.i), Scale), TopK)),
                                 !.ret[ev.i] = rating,
                                 !.j = 1]
               ELSE IF ev.j < TopK
               THEN \E rating \in Ratings(X_test, argsorted_scores, ev.i, ev.j) :
                        ev' = [ev EXCEPT !.ret[ev.i] = @ + Mul(rating, InvLog2[ev.j]),
                                         !.j = @ + 1]
               ELSE ev' = [ev EXCEPT !.ret[ev.i] = TDiv(@ * Scale, ev.tmp[ev.i]),
                                      !.i = @ + 1, !.j = 0]
            /\ UNCHANGED <<per_row, metrics, pc>>
    /\ UNCHANGED <<fitVars, params, X_test, argsorted_scores>>

\* ap: one step of its loops, or its return into stores; evaluate returns
Ap ==
    /\ pc = "ap"
    /\ IF ev.i = Shape0(X_test)
       THEN /\ per_row' = Put(per_row, "ap", ev.ret)
            /\ metrics' = Put(metrics, "MAP@10", Mean(ev.ret))
            /\ ev' = Locals(Shape0(X_test))
            /\ pc' = "evaluated"
       ELSE /\ IF ev.j < TopK
               THEN \E rating \in Ratings(X_test, argsorted_scores, ev.i, ev.j) :
                        IF rating = Scale
                        THEN ev' = [ev EXCEPT
                                      !.counter[ev.i] = @ + 1,
                                      !.ret[ev.i] = @ + TDiv((ev.counter[ev.i] + 1) * Scale, ev.j + 1),
                                      !.j = @ + 1]
                        ELSE ev' = [ev EXCEPT !.j = @ + 1]
               ELSE IF ev.counter[ev.i] = 0
               THEN ev' = [ev EXCEPT !.ret[ev.i] = 0, !.i = @ + 1, !.j = 0]
               ELSE ev' = [ev EXCEPT !.ret[ev.i] = TDiv(@, ev.counter[ev.i]),
                                      !.i = @ + 1, !.j = 0]
            /\ UNCHANGED <<per_row, metrics, pc>>
    /\ UNCHANGED <<fitVars, params, X_test, argsorted_scores>>

\* X_test is not None
HasTest == call.X_test # None

\* X_test.toarray(): the held-out ratings as doubles
ToDense(M) == [u \in DOMAIN M |-> [i \in DOMAIN M[u] |-> M[u][i] * Scale]]

\* the progress description; then for BPR the record pushed onto history,
\* after the call of evaluate when a test matrix is given
Report ==
    /\ pc = "report"
    /\ IF IsGloVe /\ Len0(users) = 0
       THEN /\ Raise("ZeroDivisionError")
            /\ UNCHANGED <<history, iteration, X_test>>
       ELSE IF HasTest
       THEN /\ X_test' = ToDense(call.X_test)
            /\ pc' = "evaluate"
            /\ UNCHANGED <<history, iteration, err>>
       ELSE /\ history' = Append(history,
                                 IF IsGloVe
                                 THEN TDiv(metrics["accum_loss"], Len0(users))
                                 ELSE metrics)
            /\ iteration' = iteration + 1
            /\ pc' = "epoch"
            /\ UNCHANGED <<err, X_test>>
    /\ UNCHANGED <<argsorted_scores, ev, per_row, locals, call, run, first, attrs, rng, params,
                   num_threads, users, positives, counts, negatives, valid, l, loss,
                   oob, metrics, cursor>>

\* evaluate has returned into metrics: the record is pushed onto history
Push ==
    /\ pc = "evaluated"
    /\ call # None
    /\ history' = Append(history, metrics)
    /\ iteration' = iteration + 1
    /\ pc' = "epoch"
    /\ X_test' = None
    /\ argsorted_scores' = None
    /\ ev' = None
    /\ per_row' = None
    /\ UNCHANGED <<locals, call, run, first, err, attrs, rng, params, num_threads, users,
                   positives, counts, negatives, valid, l, loss, oob, metrics,
                   cursor>>

\* (self.W + _W) / 2.0
Average(A, B) == [r \in DOMAIN A |-> [c \in DOMAIN A[r] |-> TDiv(A[r][c] + B[r][c], 2)]]

\* fit returns: history for BPR; for GloVe self.W is rebound to the average
Return ==
    /\ pc = "return"
    /\ IF IsGloVe
       THEN IF Shape0(params.central_W) # Shape0(params.context_W)
            THEN /\ Raise("ValueError")
                 /\ params' = params
            ELSE /\ params' = Put(params, "W", Average(params.central_W, params.context_W))
                 /\ pc' = "done"
                 /\ err' = err
       ELSE /\ pc' = "done"
            /\ UNCHANGED <<params, err>>
    /\ UNCHANGED <<evalVars, locals, call, run, first, attrs, rng, num_threads, users,
                   positives, counts, negatives, valid, l, loss, oob, metrics,
                   history, iteration, cursor>>

\* fit without a test matrix
FitNext ==
    \/ Validate
    \/ Allocate
    \/ ResolveThreads
    \/ Extract
    \/ Enter
    \/ SampleNegatives
    \/ SampleNegativesValid
    \/ EpochBegin
    \/ TrainSample
    \/ SumLoss
    \/ ValidBegin
    \/ ValidSample
    \/ SumValid
    \/ Report
    \/ Return

Next == FitNext \/ Evaluate \/ Recall \/ Ndcg \/ Ap \/ Push

Spec == Init /\ [][Next]_vars

(***************************************************************************)
(* Properties of fit.                                                      *)
(***************************************************************************)
\* the number of workers the claim of C2 expects
ExpectedWorkers == IF call.num_threads > 0 THEN call.num_threads ELSE cpu_count

\* C1: a fit whose X is not a sparse matrix raises before any work begins:
\* it never gets past its first statements, binds no attribute of self to an
\* array and allocates no parameter or optimizer state.
C1_RejectedBeforeWork ==
    call.kind # "sparse" =>
        /\ pc \in {"validate", "allocate", "raised"}
        /\ attrs = {}
        /\ params = None

\* C2: every parallel pass runs with the caller's num_threads workers when
\* that is positive and with the host's core count otherwise, and the
\* resolved num_threads handed to the parallel loop is at least 1.
C2_WorkersResolved ==
    pc \in {"train", "valid_pass"} =>
        /\ Len0(cursor) = ExpectedWorkers
        /\ num_threads >= 1

\* the input has no nonzero entry, at least one epoch is asked for, and no
\* validation matrix is given
ZeroSamples ==
    /\ call.kind = "sparse"
    /\ call.X_valid = None
    /\ Len0(Nonzero(call.X)) = 0
    /\ call.num_iterations >= 1

\* the mean training loss an epoch reported
ReportedLoss(t) == IF IsGloVe THEN history[t] ELSE history[t]["loss"]

\* C3: with zero training samples and at least one epoch, fit does not raise
\* (no division by the sample count), and every epoch reports the loss 0.
C3_ZeroSamplesReportZero ==
    ZeroSamples =>
        /\ pc # "raised"
        /\ \A t \in DOMAIN history : ReportedLoss(t) = 0
        /\ (pc = "done" => Len(history) = call.num_iterations)

\* the rows of the negatives table that have been drawn
DrawnRows == {s \in DOMAIN negatives : pc # "negatives" \/ s < l}

\* C4: every precomputed negative of a training sample is an item its user
\* has not interacted with: X[users[l], negatives[l, t]] = 0.
C4_NegativesNotInteracted ==
    (call.entry = "bpr" /\ pc # "raised") =>
        \A s \in DrawnRows : \A t \in DOMAIN negatives[s] :
            call.X[users[s]][negatives[s][t]] = 0

\* user u has interacted with every item of M
NoEligibleNegative(M, u) == \A i \in DOMAIN M[u] : M[u][i] # 0

\* some user owning a training or validation sample has no eligible negative
SomeUserWithoutNegative ==
    \/ \E s \in DOMAIN users : NoEligibleNegative(call.X, users[s])
    \/ /\ valid # None
       /\ \E s \in DOMAIN valid.users : NoEligibleNegative(call.X_valid, valid.users[s])

\* C5: when a user owning a sample has no eligible negative item (and an
\* epoch is planned), the ranking fit halts during the precomputation of the
\* negatives: it never reaches an epoch.
C5_HaltsWithoutNegative ==
    (call.entry = "bpr" /\ call.num_iterations >= 1 /\ pc # "extract"
        /\ SomeUserWithoutNegative) =>
        pc \in {"enter", "negatives", "negatives_valid", "raised"}

\* C6: every step of an epoch's validation pass (loss called with
\* update = false, and the summing around it) leaves W, H and the
\* optimizer's accumulators as the training pass left them.
C6_ValidationFrame ==
    [][(pc \in {"valid", "valid_pass"}) => (params' = params)]_vars

\* a validation pass over at least one sample has run after a training pass
\* that moved the parameters
C6_Witness ==
    /\ pc = "report"
    /\ valid # None
    /\ Len0(valid.users) > 0
    /\ metrics["val_loss"] # 0
    /\ params.M_W # Zeros2(Shape0(params.W), Shape1(params.W))

\* the keys of the record an epoch pushes
RecordKeys ==
    {"loss"} \cup (IF HasValid THEN {"val_loss"} ELSE {})
             \cup (IF HasTest THEN {"Reacall@10", "nDCG@10", "MAP@10"} ELSE {})

\* fit is between the sum of the training losses and the push of the record
AfterSum ==
    pc \in {"valid", "valid_pass", "report", "evaluate", "recall", "ndcg", "ap", "evaluated"}

\* C11: BPR's fit returns one record per epoch, in epoch order: a returned
\* history has num_iterations records, and the record pushed in epoch t is
\* the metrics map of that epoch: its loss is the mean of the losses the
\* training pass of epoch t stored, its val_loss the mean of the losses the
\* validation pass of epoch t stored, its evaluator metrics the means of
\* the arrays evaluate computed in epoch t, and it has no other key.
C11_HistoryRecords ==
    /\ []((call.entry = "bpr" /\ pc = "done") => Len(history) = call.num_iterations)
    /\ [][(call.entry = "bpr" /\ pc = "train" /\ pc' \in {"valid", "report"}) =>
             (metrics'["loss"] = TDiv(SumTo(loss, Len0(users)), Len0(users)))]_vars
    /\ [][(call.entry = "bpr" /\ AfterSum /\ pc' # "raised") =>
             (metrics'["loss"] = metrics["loss"])]_vars
    /\ [][(call.entry = "bpr" /\ history' # history) =>
             (/\ history' = Append(history, metrics)
              /\ Len(history') = iteration + 1
              /\ iteration' = iteration + 1
              /\ DOMAIN metrics = RecordKeys
              /\ HasValid =>
                     metrics["val_loss"] =
                         TDiv(SumLossTo(Len0(valid.users)), Len0(valid.users))
              /\ HasTest =>
                     /\ metrics["Reacall@10"] = Mean(per_row["recall"])
                     /\ metrics["nDCG@10"] = Mean(per_row["ndcg"])
                     /\ metrics["MAP@10"] = Mean(per_row["ap"]))]_vars

\* fit has returned two records with different losses, with a validation
\* and a test matrix configured
C11_Witness ==
    /\ call.entry = "bpr"
    /\ pc = "done"
    /\ HasValid
    /\ HasTest
    /\ Len(history) = 2
    /\ history[1]["loss"] # history[2]["loss"]
    /\ history[1]["val_loss"] # history[2]["val_loss"]

\* every worker of the training pass has taken the last index of its chunk
EveryWorkerThrough ==
    \A w \in DOMAIN cursor :
        cursor[w] = ChunkStart(w + 1, Len0(users), Len0(cursor))

\* C12: epochs are separated by a barrier.  The training pass is left only
\* when every worker is through its chunk; the parameters are updated only
\* by the training pass of the current epoch, all earlier epochs reported;
\* so the loss sum, the validation pass and evaluate of an epoch see all of
\* its updates and none of the next epoch's; and the next epoch starts only
\* from the report of this one.
C12_EpochBarrier ==
    /\ [][(pc = "train" /\ pc' # "train") => EveryWorkerThrough]_vars
    /\ [][(params' # params /\ pc \notin {"allocate", "enter", "return"}) =>
             (/\ pc = "train"
              /\ pc' = "train"
              /\ Len(history) = iteration
              /\ iteration < call.num_iterations)]_vars
    /\ [][(pc' = "train" /\ pc # "train") =>
             (/\ pc = "epoch"
              /\ \A w \in DOMAIN cursor' :
                     cursor'[w] = ChunkStart(w, Len0(users), Len0(cursor')))]_vars
    /\ [][(iteration' # iteration) =>
             (/\ iteration' = iteration + 1
              /\ pc \in {"report", "evaluated"}
              /\ pc' = "epoch")]_vars

\* in the second epoch one worker is through its chunk, another is not
C12_Witness ==
    /\ pc = "train"
    /\ iteration >= 1
    /\ \E w1, w2 \in DOMAIN cursor :
           /\ cursor[w1] = ChunkEnd(w1, Len0(users), Len0(cursor))
           /\ cursor[w1] > ChunkStart(w1, Len0(users), Len0(cursor))
           /\ cursor[w2] < ChunkEnd(w2, Len0(users), Len0(cursor))

\* the workers whose chunk holds index s
Owners(s) ==
    {w \in DOMAIN cursor :
        /\ ChunkStart(w, Len0(users), Len0(cursor)) <= s
        /\ s < ChunkStart(w + 1, Len0(users), Len0(cursor))}

\* C13: in a training pass every slot of the loss buffer belongs to the
\* chunk of exactly one worker; a step of the pass is one worker storing
\* into the next slot of its own chunk, every other slot and every other
\* worker's position left as they were, so a slot is stored once; and the
\* loss of the epoch is the sum of the buffer the workers have left.
C13_LossSlotsDisjoint ==
    /\ [](pc = "train" =>
             /\ \A s \in DOMAIN loss : Cardinality(Owners(s)) = 1
             /\ \A w \in DOMAIN cursor :
                    /\ ChunkStart(w, Len0(users), Len0(cursor)) <= cursor[w]
                    /\ cursor[w] <= ChunkStart(w + 1, Len0(users), Len0(cursor)))
    /\ [][(pc = "train" /\ pc' = "train") =>
             (\E w \in DOMAIN cursor :
                 /\ Owners(cursor[w]) = {w}
                 /\ cursor' = [cursor EXCEPT ![w] = cursor[w] + 1]
                 /\ \A t \in DOMAIN loss \ {cursor[w]} : loss'[t] = loss[t])]_vars
    /\ [][(pc = "train" /\ pc' \in {"valid", "report"}) =>
             (/\ EveryWorkerThrough
              /\ loss' = loss
              /\ IF IsGloVe
                 THEN metrics'["accum_loss"] = SumTo(loss, Len0(users))
                 ELSE metrics'["loss"] = TDiv(SumTo(loss, Len0(users)), Len0(users)))]_vars

\* a worker has stored a loss in its chunk while the worker of an earlier
\* chunk is not through its own
C13_Witness ==
    /\ pc = "train"
    /\ \E w1, w2 \in DOMAIN cursor :
           /\ w1 < w2
           /\ cursor[w2] > ChunkStart(w2, Len0(users), Len0(cursor))
           /\ cursor[w1] < ChunkStart(w1 + 1, Len0(users), Len0(cursor))
           /\ loss[cursor[w2] - 1] # 0

\* C15: BPR's fit stores into and reads from the loss buffer below its
\* length only: nothing is stored past its end, no store stops the process,
\* and no worker of a training or validation pass is handed an index past
\* the buffer's last slot.
C15_LossIndexInBounds ==
    call.entry = "bpr" =>
        /\ oob = <<>>
        /\ err # "SIGSEGV"
        /\ pc \in {"train", "valid_pass"} =>
               \A w \in DOMAIN cursor : cursor[w] <= Len0(loss)

(***************************************************************************)
(* Two calls of fit on the same input, configuration and seed: when the    *)
(* first call has ended, the caller seeds the generator again and calls    *)
(* fit once more.                                                          *)
(***************************************************************************)
TwoRunCalls ==
    {c \in Calls : c.kind = "sparse" /\ c.num_iterations >= 1 /\ c.X_test = None}

\* what a call of fit leaves behind: the sample order, the negatives table,
\* the losses of the epochs, the parameters, and how it ended
Outcome ==
    [users |-> users, positives |-> positives, counts |-> counts,
     negatives |-> negatives, valid |-> valid, history |-> history,
     params |-> params, pc |-> pc, err |-> err]

Rerun ==
    /\ run = 1
    /\ pc \in {"done", "raised"}
    /\ first' = Outcome
    /\ run' = 2
    /\ pc' = IF call.entry = "cymf" THEN "validate" ELSE "allocate"
    /\ err' = "None"
    /\ attrs' = {}
    /\ rng' = call.seed
    /\ params' = None
    /\ num_threads' = call.num_threads
    /\ users' = <<>>
    /\ positives' = <<>>
    /\ counts' = <<>>
    /\ negatives' = <<>>
    /\ valid' = None
    /\ l' = 0
    /\ loss' = <<>>
    /\ oob' = <<>>
    /\ metrics' = EmptyMap
    /\ history' = <<>>
    /\ iteration' = 0
    /\ cursor' = <<>>
    /\ UNCHANGED <<call, evalVars, locals>>

TwoRunInit ==
    /\ \E c \in TwoRunCalls : Entered(c)
    /\ run = 1
    /\ first = None

TwoRunNext == FitNext \/ Rerun

TwoRunSpec == TwoRunInit /\ [][TwoRunNext]_vars

MaxShort == 1

\* the item counts evaluate is run on: fewer than k, k, more than k
ItemCounts == {TopK - MaxShort, TopK, TopK + 1}

\* item factors rising with the item's index; with tie, items 0 and 1 are equal
Rising(M, tie) ==
    [i \in 0..(M - 1) |->
        [c \in 0..(num_components - 1) |->
            (IF tie /\ i > 0 THEN i - 1 ELSE i) * (Scale \div 10)]]

\* user factors: every user w, or w and -w in turn
Every(w) == [u \in Users |-> [c \in 0..(num_components - 1) |-> w]]
InTurn(w) == [u \in Users |-> [c \in 0..(num_components - 1) |-> IF u % 2 = 0 THEN w ELSE -w]]

\* a user's held-out row: the first p items, or the last p items
Prefix(M, p) == [i \in 0..(M - 1) |-> IF i < p THEN Scale ELSE 0]
Suffix(M, p) == [i \in 0..(M - 1) |-> IF i >= M - p THEN Scale ELSE 0]

HeldOutRows(M) ==
    LET sizes == {0, 1, 2, TopK, M} \cap 0..M
    IN  {Prefix(M, p) : p \in sizes} \cup {Suffix(M, p) : p \in sizes}

EvalInputs ==
    UNION {{[W |-> W, H |-> Rising(M, tie), X |-> [u \in Users |-> IF u = 0 THEN a ELSE b]] :
               W \in {Every(Scale), Every(-Scale), InTurn(Scale)},
               tie \in BOOLEAN, a \in HeldOutRows(M), b \in HeldOutRows(M)} :
           M \in ItemCounts}

EvalInit ==
    /\ \E e \in EvalInputs :
          /\ params = BprAdamUpdater(e.W, e.H)
          /\ X_test = e.X
    /\ pc = "evaluate"
    /\ metrics = EmptyMap
    /\ per_row = EmptyMap
    /\ argsorted_scores = None
    /\ ev = None
    /\ call = None
    /\ run = 1
    /\ first = None
    /\ err = "None"
    /\ attrs = {}
    /\ rng = 0
    /\ num_threads = 1
    /\ users = <<>>
    /\ positives = <<>>
    /\ counts = <<>>
    /\ negatives = <<>>
    /\ valid = None
    /\ l = 0
    /\ loss = <<>>
    /\ oob = <<>>
    /\ history = <<>>
    /\ iteration = 0
    /\ cursor = <<>>
    /\ locals = None

EvalNext == Evaluate \/ Recall \/ Ndcg \/ Ap

EvalSpec == EvalInit /\ [][EvalNext]_vars

MetricNames == {"recall", "ndcg", "ap"}

\* C8: once evaluate has returned, every user's Recall, nDCG and AP and
\* their three means lie in [0, 1], whatever the number of items
C8_MetricsInUnitInterval ==
    pc = "evaluated" =>
        /\ \A name \in MetricNames : \A u \in DOMAIN X_test :
               per_row[name][u] >= 0 /\ per_row[name][u] <= Scale
        /\ \A key \in DOMAIN metrics : metrics[key] >= 0 /\ metrics[key] <= Scale

\* C9: a user whose held-out row has no positive scores exactly 0.0 on
\* Recall, nDCG and AP, and evaluate returns
C9_NoPositivesScoreZero ==
    pc = "evaluated" =>
        \A u \in DOMAIN X_test :
            RowSum(X_test, u) = 0 => \A name \in MetricNames : per_row[name][u] = 0

\* the top-k list of user u begins with all of u's positives
PerfectRanking(u) ==
    LET p == TDiv(RowSum(X_test, u), Scale)
    IN  /\ p >= 1
        /\ p <= ViewColumns(argsorted_scores)
        /\ \A j \in 0..(p - 1) :
               X_test[u][argsorted_scores[u][Shape1(argsorted_scores) - 1 - j]] = Scale

\* C10: when every user's top-k list begins with all of that user's
\* positives, every user scores exactly 1.0 on Recall, nDCG and AP
C10_PerfectRankingScoresOne ==
    (pc = "evaluated" /\ \A u \in DOMAIN X_test : PerfectRanking(u)) =>
        \A u \in DOMAIN X_test : \A name \in MetricNames : per_row[name][u] = Scale

\* does item a come before item b in a stable descending sort of row
Before(row, a, b) == row[a] > row[b] \/ (row[a] = row[b] /\ a < b)

\* the top-k list of user u: the columns of the view, first rank first
TopList(u) ==
    [j \in 0..(ViewColumns(argsorted_scores) - 1) |->
        argsorted_scores[u][Shape1(argsorted_scores) - 1 - j]]

\* C14: the top-k list evaluate ranks a user's items by is the first k
\* items of a stable descending sort of the user's scores: highest score
\* first, the lower index first among equal scores, and every item left
\* out comes after every item of the list
C14_StableDescendingTopK ==
    pc \in {"recall", "ndcg", "ap", "evaluated"} =>
        \A u \in DOMAIN argsorted_scores :
            LET row == Dot(params.W, params.H)[u]
                top == TopList(u)
                listed == {top[j] : j \in DOMAIN top}
            IN  /\ \A j1, j2 \in DOMAIN top : j1 < j2 => Before(row, top[j1], top[j2])
                /\ \A e \in DOMAIN row \ listed : \A j \in DOMAIN top :
                       Before(row, top[j], e)

(***************************************************************************)
(* Two workers of the training prange inside BprAdamUpdater.loss at the    *)
(* same time, worker w on sample w, statement by statement on the shared   *)
(* arrays.  A statement that assigns to an array element is a load, which  *)
(* computes the new value from the arrays as they are, and a store.        *)
(***************************************************************************)
\* the items of the catalogue the two samples are taken from
PairItems == 0..(NumItems + 1)

\* the locals of loss() on entry
Entry ==
    [at |-> "202", half |-> "load", k |-> 0, x_uij |-> 0, l2_norm |-> 0, loss |-> 0,
     grad_wuk |-> 0, grad_hik |-> 0, grad_hjk |-> 0, reg |-> 0]

\* the assignments of the update loop's body, by line, in order
Assignments == <<"217", "218", "219", "221", "222", "223", "225", "226", "227">>

\* the array an assignment stores into
Target(at) ==
    CASE at = "217" -> "M_W" [] at \in {"218", "219"} -> "M_H"
      [] at = "221" -> "V_W" [] at \in {"222", "223"} -> "V_H"
      [] at = "225" -> "W"   [] at \in {"226", "227"} -> "H"

\* an optimizer that keeps one row of moments for all users and items
RowOfSharedMoments(at, u, i, j) ==
    IF at \in {"217", "218", "219", "221", "222", "223"} THEN 0
    ELSE IF at = "225" THEN u
    ELSE IF at = "226" THEN i
    ELSE j

\* the row an assignment stores into
RowOf(at, u, i, j) ==
    IF at \in {"217", "221", "225"} THEN u
    ELSE IF at \in {"218", "222", "226"} THEN i
    ELSE j

\* the right-hand side of an assignment, from the arrays p and the locals c
Assigned(p, c, at, r) ==
    CASE at = "217" -> Moment1(p.M_W[r][c.k], c.grad_wuk)
      [] at = "218" -> Moment1(p.M_H[r][c.k], c.grad_hik)
      [] at = "219" -> Moment1(p.M_H[r][c.k], c.grad_hjk)
      [] at = "221" -> Moment2(p.V_W[r][c.k], c.grad_wuk)
      [] at = "222" -> Moment2(p.V_H[r][c.k], c.grad_hik)
      [] at = "223" -> Moment2(p.V_H[r][c.k], c.grad_hjk)
      [] at = "225" -> p.W[r][c.k] - AdamDelta(p.M_W[r][c.k], p.V_W[r][c.k])
      [] at \in {"226", "227"} -> p.H[r][c.k] - AdamDelta(p.M_H[r][c.k], p.V_H[r][c.k])

\* the statement after an assignment of coordinate k
Following(at, k, K) ==
    IF at = "227" THEN (IF k + 1 < K THEN "213" ELSE "229")
    ELSE CHOOSE nxt \in {"218", "219", "221", "222", "223", "225", "226", "227"} :
             \E n \in 1..(Len(Assignments) - 1) :
                 Assignments[n] = at /\ Assignments[n + 1] = nxt

\* loss(u, i, j, update=True) of worker w: its next statement
LossStep ==
    /\ pc = "pair"
    /\ \E w \in DOMAIN locals :
          LET c == locals[w]
              u == users[w]
              i == positives[w]
              j == negatives[w][iteration]
              K == Shape1(params.W)
              r == RowOf(c.at, u, i, j)
          IN  /\ c.at # "done"
              /\ CASE c.at = "202" ->
                        /\ locals' = [locals EXCEPT ![w] = [c EXCEPT
                               !.x_uij = @ + Mul(params.W[u][c.k],
                                                 params.H[i][c.k] - params.H[j][c.k]),
                               !.at = "203"]]
                        /\ UNCHANGED <<params, loss>>
                   [] c.at = "203" ->
                        /\ locals' = [locals EXCEPT ![w] = [c EXCEPT
                               !.l2_norm = @ + square(params.W[u][c.k])
                                             + square(params.H[i][c.k])
                                             + square(params.H[j][c.k]),
                               !.k = IF c.k + 1 < K THEN c.k + 1 ELSE 0,
                               !.at = IF c.k + 1 < K THEN "202" ELSE "205"]]
                        /\ UNCHANGED <<params, loss>>
                   [] c.at = "205" ->
                        /\ locals' = [locals EXCEPT ![w] = [c EXCEPT
                               !.loss = -log(sigmoid(c.x_uij)) + Mul(weight_decay, c.l2_norm),
                               !.x_uij = TDiv(Scale * Scale, Scale + exp(c.x_uij)),
                               !.at = "213"]]
                        /\ UNCHANGED <<params, loss>>
                   [] c.at = "213" ->
                        /\ locals' = [locals EXCEPT ![w] = [c EXCEPT
                               !.grad_wuk = -(Mul(c.x_uij, params.H[i][c.k] - params.H[j][c.k])
                                              - Mul(weight_decay, params.W[u][c.k])),
                               !.at = "214"]]
                        /\ UNCHANGED <<params, loss>>
                   [] c.at = "214" ->
                        /\ locals' = [locals EXCEPT ![w] = [c EXCEPT
                               !.grad_hik = -(Mul(c.x_uij, params.W[u][c.k])
                                              - Mul(weight_decay, params.H[i][c.k])),
                               !.at = "215"]]
                        /\ UNCHANGED <<params, loss>>
                   [] c.at = "215" ->
                        /\ locals' = [locals EXCEPT ![w] = [c EXCEPT
                               !.grad_hjk = -(Mul(c.x_uij, -params.W[u][c.k])
                                              - Mul(weight_decay, params.H[j][c.k])),
                               !.at = "217"]]
                        /\ UNCHANGED <<params, loss>>
                   [] c.at = "229" ->
                        /\ loss' = [loss EXCEPT ![w] = c.loss]
                        /\ locals' = [locals EXCEPT ![w] = [c EXCEPT !.at = "done"]]
                        /\ UNCHANGED params
                   [] OTHER ->
                        IF c.half = "load"
                        THEN /\ locals' = [locals EXCEPT ![w] = [c EXCEPT
                                    !.reg = Assigned(params, c, c.at, r),
                                    !.half = "store"]]
                             /\ UNCHANGED <<params, loss>>
                        ELSE /\ params' = [params EXCEPT ![Target(c.at)][r][c.k] = c.reg]
                             /\ locals' = [locals EXCEPT ![w] = [c EXCEPT
                                    !.half = "load",
                                    !.k = IF c.at = "227" /\ c.k + 1 < K THEN c.k + 1 ELSE c.k,
                                    !.at = Following(c.at, c.k, K)]]
                             /\ UNCHANGED loss
    /\ UNCHANGED <<evalVars, call, run, first, pc, err, attrs, rng, num_threads, users,
                   positives, counts, negatives, valid, l, oob, metrics, history,
                   iteration, cursor>>

\* the end of the parallel region: both workers have returned
Join ==
    /\ pc = "pair"
    /\ \A w \in DOMAIN locals : locals[w].at = "done"
    /\ pc' = "joined"
    /\ UNCHANGED <<evalVars, locals, call, run, first, err, attrs, rng, params,
                   num_threads, users, positives, counts, negatives, valid, l, loss,
                   oob, metrics, history, iteration, cursor>>

\* the second sample's positive and negative: the same item, or neighbours
PairSamples ==
    UNION {{<<u, i, i>>, <<u, i, (i + 1) % Cardinality(PairItems)>>} :
               u \in Users, i \in PairItems}

\* the updater fit_bpr builds from seed r
FreshUpdater(r) ==
    BprAdamUpdater(Uniform(r, NumUsers, num_components, 100, num_components),
                   Uniform(RngAt(r, NumUsers * num_components),
                           Cardinality(PairItems), num_components, 100,
                           num_components))

\* the updater the two workers start on: fresh from fit_bpr, or after one
\* sample has been trained on
PairUpdaters ==
    UNION {{FreshUpdater(r), BprLossUpdater(FreshUpdater(r), 0, 0, 1, TRUE)} :
               r \in 0..MaxSeed}

\* second samples that share a row with the first sample <<0, 0, 1>>: the
\* row of user 0, the row of item 1
SharingSamples == {<<0, 2, 3>>, <<1, 1, 2>>}

\* pairs with no common row from every updater; pairs with a common row
\* from the fresh updater of seed 0
PairInit ==
    /\ \E p \in PairUpdaters, s \in PairSamples, j1 \in {0, 1} :
          /\ \/ s[1] # 0 /\ {0, j1} \cap {s[2], s[3]} = {}
             \/ p = FreshUpdater(0) /\ j1 = 1 /\ s \in SharingSamples
          /\ params = p
          /\ first = p
          /\ users = [w \in {0, 1} |-> IF w = 0 THEN 0 ELSE s[1]]
          /\ positives = [w \in {0, 1} |-> IF w = 0 THEN 0 ELSE s[2]]
          /\ negatives = [w \in {0, 1} |-> [t \in {0} |-> IF w = 0 THEN j1 ELSE s[3]]]
    /\ locals = [w \in {0, 1} |-> Entry]
    /\ loss = Zeros(2)
    /\ pc = "pair"
    /\ num_threads = 2
    /\ cursor = [w \in {0, 1} |-> w]
    /\ iteration = 0
    /\ call = None
    /\ run = 1
    /\ err = "None"
    /\ attrs = {}
    /\ rng = 0
    /\ counts = <<>>
    /\ valid = None
    /\ l = 0
    /\ oob = <<>>
    /\ metrics = EmptyMap
    /\ history = <<>>
    /\ X_test = None
    /\ argsorted_scores = None
    /\ ev = None
    /\ per_row = None

PairNext == LossStep \/ Join

PairSpec == PairInit /\ [][PairNext]_vars

\* sample w as loss() is called on it
Sample(w) == <<users[w], positives[w], negatives[w][iteration]>>

\* the two samples touch no common row of W and no common row of H
DisjointRows ==
    /\ users[0] # users[1]
    /\ {positives[0], negatives[0][iteration]}
           \cap {positives[1], negatives[1][iteration]} = {}

\* the updater after sample a and then sample b, each in one piece
Sequential(a, b) ==
    BprLossUpdater(BprLossUpdater(first, a[1], a[2], a[3], TRUE), b[1], b[2], b[3], TRUE)

\* the rows of sample w in every array of the updater
Rows(p, w) ==
    <<p.W[users[w]], p.M_W[users[w]], p.V_W[users[w]],
      p.H[positives[w]], p.M_H[positives[w]], p.V_H[positives[w]],
      p.H[negatives[w][iteration]], p.M_H[negatives[w][iteration]],
      p.V_H[negatives[w][iteration]]>>

\* the updater after sample w alone
Alone(w) ==
    BprLossUpdater(first, users[w], positives[w], negatives[w][iteration], TRUE)

\* C16: when the two samples touch no common row, however the statements
\* of the two workers interleave, a worker that has returned has left the
\* rows of its sample as its sample processed alone leaves them, and has
\* computed the loss of its sample on the initial updater, which is also
\* its loss after the other sample; once both have returned the updater
\* is the one the two samples processed one after the other leave, in
\* either order
C16_DisjointRowsCommute ==
    DisjointRows =>
        /\ \A w \in DOMAIN locals :
               locals[w].at = "done" =>
                   /\ Rows(params, w) = Rows(Alone(w), w)
                   /\ loss[w] = BprLossValue(first, users[w], positives[w],
                                             negatives[w][iteration])
                   /\ loss[w] = BprLossValue(Alone(1 - w), users[w], positives[w],
                                             negatives[w][iteration])
        /\ pc = "joined" =>
               /\ params = Sequential(Sample(0), Sample(1))
               /\ params = Sequential(Sample(1), Sample(0))

\* two samples that share a row can leave the updater as neither order of
\* processing them one after the other leaves it
RacedApart ==
    /\ pc = "joined"
    /\ ~DisjointRows
    /\ params # Sequential(Sample(0), Sample(1))
    /\ params # Sequential(Sample(1), Sample(0))

\* both workers have returned from samples with no common row whose
\* positive and negative differ, and every array of the updater has changed
C16_Witness ==
    /\ pc = "joined"
    /\ DisjointRows
    /\ \A w \in {0, 1} : positives[w] # negatives[w][iteration]
    /\ \A a \in {"W", "H", "M_W", "M_H", "V_W", "V_H"} : params[a] # first[a]
    /\ loss[0] # 0
    /\ loss[1] # 0

=============================================================================
